---- MODULE Spec2Model ----
(***************************************************************************)
(* Water Plant MCP server (server.py): the contract cache file, the        *)
(* refresh that writes it, the three lookup tools that read it, the CSV    *)
(* fetch, and the process lifecycle around them.                           *)
(*                                                                         *)
(* Texts (HTTP bodies, the cache file, returned strings) are either plain  *)
(* strings, JSON documents given by their syntax tree, or a strict prefix  *)
(* of a text (what a failed or unfinished write leaves in the file).       *)
(* Python values are tagged records: dict, list, str.                      *)
(***************************************************************************)
EXTENDS Integers, Sequences, FiniteSets, TLC

\* ---------------------------------------------------------------- bounds
MaxPartial == 1      \* longest prefix a failed write is followed through
MaxCsvGets == 1      \* cap of the CSV GET counter

\* two server processes sharing the working directory: an instance and the
\* one that replaces it
Procs == {1, 2}

\* ------------------------------------------------------- texts and values
PStr(s) == [t |-> "str", s |-> s]
PList(items) == [t |-> "list", items |-> items]
PDict(keys, val) == [t |-> "dict", keys |-> keys, val |-> val]
EmptyDict == PDict(<<>>, <<>>)

SStr(s) == [t |-> "string", s |-> s]
SArr(items) == [t |-> "array", items |-> items]
SObj(pairs) == [t |-> "object", pairs |-> pairs]
KV(k, v) == [k |-> k, v |-> v]

JsonText(syn) == [t |-> "jsontext", syn |-> syn]
Prefix(text, n) == [t |-> "prefix", of |-> text, n |-> n]
NoFile == [t |-> "nofile"]

Return(v) == [t |-> "return", v |-> v]
Raise(e) == [t |-> "raise", exc |-> e]

RECURSIVE SumLen(_, _)
SumLen(f, i) == IF i = 0 THEN 0 ELSE f[i] + SumLen(f, i - 1)

\* number of characters of the compact rendering of a JSON syntax tree
RECURSIVE SynLen(_)
SynLen(syn) ==
    CASE syn.t = "string" -> Len(syn.s) + 2
      [] syn.t = "array" ->
            LET n == Len(syn.items)
            IN  2 + (IF n = 0 THEN 0 ELSE n - 1)
                  + SumLen([i \in 1..n |-> SynLen(syn.items[i])], n)
      [] syn.t = "object" ->
            LET n == Len(syn.pairs)
            IN  2 + (IF n = 0 THEN 0 ELSE n - 1)
                  + SumLen([i \in 1..n |->
                              Len(syn.pairs[i].k) + 3 + SynLen(syn.pairs[i].v)], n)

\* len(text)
TextLen(text) ==
    CASE text.t = "str" -> Len(text.s)
      [] text.t = "jsontext" -> SynLen(text.syn)
      [] text.t = "prefix" -> text.n

\* ------------------------------------------------------------ Python dict
\* variant: a repeated key moves to the position of its last occurrence
RECURSIVE KeyOrder_last(_)
KeyOrder_last(pairs) ==
    IF pairs = <<>> THEN <<>>
    ELSE LET n == Len(pairs)
             back == KeyOrder_last(SubSeq(pairs, 2, n))
         IN  IF \E i \in 2..n : pairs[i].k = pairs[1].k
             THEN back ELSE <<pairs[1].k>> \o back

\* the keys of a sequence of key/value pairs, each once, in order of first
\* occurrence (insertion order of a dict built by successive assignment)
RECURSIVE KeyOrder(_)
KeyOrder(pairs) ==
    IF pairs = <<>> THEN <<>>
    ELSE LET n == Len(pairs)
             front == KeyOrder(SubSeq(pairs, 1, n - 1))
         IN  IF \E i \in 1..(n - 1) : pairs[i].k = pairs[n].k
             THEN front ELSE Append(front, pairs[n].k)

LastIndex(pairs, k) ==
    CHOOSE i \in 1..Len(pairs) :
        /\ pairs[i].k = k
        /\ \A j \in (i + 1)..Len(pairs) : pairs[j].k # k

\* dict built from pairs: a repeated key keeps its first position and takes
\* its last value
DictFromPairs(pairs) ==
    PDict(KeyOrder(pairs),
          [k \in {pairs[i].k : i \in 1..Len(pairs)} |->
              pairs[LastIndex(pairs, k)].v])

HasKey(d, k) == k \in DOMAIN d.val
DictGet(d, k, default) == IF HasKey(d, k) THEN d.val[k] ELSE default

\* --------------------------------------------------------- json.load/dumps
RECURSIVE JsonValue(_)
JsonValue(syn) ==
    CASE syn.t = "string" -> PStr(syn.s)
      [] syn.t = "array" ->
            PList([i \in 1..Len(syn.items) |-> JsonValue(syn.items[i])])
      [] syn.t = "object" ->
            DictFromPairs([i \in 1..Len(syn.pairs) |->
                             KV(syn.pairs[i].k, JsonValue(syn.pairs[i].v))])

\* json.load(f) on the text read from the file
JsonLoad(text) ==
    IF text.t = "jsontext" THEN Return(JsonValue(text.syn))
    ELSE Raise("JSONDecodeError")

RECURSIVE JsonSyntax(_)
JsonSyntax(v) ==
    CASE v.t = "str" -> SStr(v.s)
      [] v.t = "list" ->
            SArr([i \in 1..Len(v.items) |-> JsonSyntax(v.items[i])])
      [] v.t = "dict" ->
            SObj([i \in 1..Len(v.keys) |->
                     KV(v.keys[i], JsonSyntax(v.val[v.keys[i]]))])

\* json.dumps(v, indent=2)
JsonDumps(v) == JsonText(JsonSyntax(v))

\* ------------------------------------------------------------------ tools
IsSubstr(a, b) ==
    \E i \in 1..(Len(b) - Len(a) + 1) : SubSeq(b, i, i + Len(a) - 1) = a

\* str(v) as an f-string renders it; containers are rendered schematically
PyFormat(v) ==
    CASE v.t = "str" -> v.s
      [] v.t = "list" -> "[...]"
      [] v.t = "dict" -> "{...}"

\* data.get("operations", {}) on the loaded document
GetOperations(data) ==
    IF data.t # "dict" THEN Raise("AttributeError")
    ELSE Return(DictGet(data, "operations", EmptyDict))

list_operations(exists, text) ==
    IF ~exists THEN Return(PList(<<PStr("Tool contract not found.")>>))
    ELSE LET ld == JsonLoad(text) IN
         IF ld.t = "raise" THEN ld
         ELSE LET g == GetOperations(ld.v) IN
              IF g.t = "raise" THEN g
              ELSE IF g.v.t # "dict" THEN Raise("AttributeError")
              ELSE Return(PList([i \in 1..Len(g.v.keys) |-> PStr(g.v.keys[i])]))

\* variant: no test of os.path.exists before the file is opened
extract_info_nocheck(exists, text, operation_id) ==
    IF ~exists THEN Raise("FileNotFoundError")
    ELSE LET ld == JsonLoad(text) IN
         IF ld.t = "raise" THEN ld
         ELSE LET g == GetOperations(ld.v) IN
              IF g.t = "raise" THEN g
              ELSE IF g.v.t # "dict" THEN Raise("AttributeError")
              ELSE Return(JsonDumps(DictGet(g.v, operation_id,
                                            PStr("No data for " \o operation_id))))

\* variant: an operation that is absent is answered with simulate_operation's
\* message
extract_info_nosuch(exists, text, operation_id) ==
    IF ~exists THEN Return(PStr("Tool contract missing."))
    ELSE LET ld == JsonLoad(text) IN
         IF ld.t = "raise" THEN ld
         ELSE LET g == GetOperations(ld.v) IN
              IF g.t = "raise" THEN g
              ELSE IF g.v.t # "dict" THEN Raise("AttributeError")
              ELSE Return(JsonDumps(DictGet(g.v, operation_id,
                                            PStr("No such operation: " \o operation_id))))

extract_info(exists, text, operation_id) ==
    IF ~exists THEN Return(PStr("Tool contract missing."))
    ELSE LET ld == JsonLoad(text) IN
         IF ld.t = "raise" THEN ld
         ELSE LET g == GetOperations(ld.v) IN
              IF g.t = "raise" THEN g
              ELSE IF g.v.t # "dict" THEN Raise("AttributeError")
              ELSE Return(JsonDumps(DictGet(g.v, operation_id,
                                            PStr("No data for " \o operation_id))))

\* operation_id in ops, for each type ops can have
Contains(ops, operation_id) ==
    CASE ops.t = "dict" -> HasKey(ops, operation_id)
      [] ops.t = "list" ->
            \E i \in 1..Len(ops.items) : ops.items[i] = PStr(operation_id)
      [] ops.t = "str" -> IsSubstr(operation_id, ops.s)

\* variant: the default type is rendered without the angle brackets
MockInputs_bare(op) ==
    LET inputs == DictGet(op, "inputs", EmptyDict) IN
    IF inputs.t # "dict" THEN Raise("AttributeError")
    ELSE IF \E k \in DOMAIN inputs.val : inputs.val[k].t # "dict"
    THEN Raise("AttributeError")
    ELSE Return(PDict(inputs.keys,
            [k \in DOMAIN inputs.val |->
                IF HasKey(inputs.val[k], "type")
                THEN PStr("<" \o PyFormat(inputs.val[k].val["type"]) \o ">")
                ELSE PStr("unknown")]))

\* {k: f"<{v.get('type', 'unknown')}>" for k, v in op.get("inputs", {}).items()}
MockInputs(op) ==
    LET inputs == DictGet(op, "inputs", EmptyDict) IN
    IF inputs.t # "dict" THEN Raise("AttributeError")
    ELSE IF \E k \in DOMAIN inputs.val : inputs.val[k].t # "dict"
    THEN Raise("AttributeError")
    ELSE Return(PDict(inputs.keys,
            [k \in DOMAIN inputs.val |->
                PStr("<" \o PyFormat(DictGet(inputs.val[k], "type", PStr("unknown")))
                         \o ">")]))

\* the elements a for loop over v visits
IterItems(v) ==
    CASE v.t = "list" -> v.items
      [] v.t = "dict" -> [i \in 1..Len(v.keys) |-> PStr(v.keys[i])]
      [] v.t = "str" -> [i \in 1..Len(v.s) |-> PStr(SubSeq(v.s, i, i))]

\* what evaluating  o["name"]: f"<{o['type']}>"  raises, "" when nothing
OutputError(o) ==
    CASE o.t # "dict" -> "TypeError"
      [] o.t = "dict" /\ ~HasKey(o, "name") -> "KeyError"
      [] o.t = "dict" /\ HasKey(o, "name") /\ ~HasKey(o, "type") -> "KeyError"
      [] o.t = "dict" /\ HasKey(o, "name") /\ HasKey(o, "type")
            /\ o.val["name"].t # "str" -> "TypeError"
      [] OTHER -> ""

\* {o["name"]: f"<{o['type']}>" for o in op.get("outputs", [])}
MockOutputs(op) ==
    LET outs == IterItems(DictGet(op, "outputs", PList(<<>>)))
        bad == {i \in 1..Len(outs) : OutputError(outs[i]) # ""}
    IN  IF bad # {}
        THEN Raise(OutputError(outs[CHOOSE i \in bad : \A j \in bad : i <= j]))
        ELSE Return(DictFromPairs([i \in 1..Len(outs) |->
                KV(outs[i].val["name"].s,
                   PStr("<" \o PyFormat(outs[i].val["type"]) \o ">"))]))

ResultKeys == <<"operation_id", "description", "cypher", "mock_inputs", "mock_outputs">>

simulate_operation(exists, text, operation_id) ==
    IF ~exists THEN Return(PStr("Tool contract not found."))
    ELSE LET ld == JsonLoad(text) IN
         IF ld.t = "raise" THEN ld
         ELSE LET g == GetOperations(ld.v) IN
              IF g.t = "raise" THEN g
              ELSE IF ~Contains(g.v, operation_id)
              THEN Return(PStr("No such operation: " \o operation_id))
              ELSE IF g.v.t # "dict" THEN Raise("TypeError")
              ELSE LET op == g.v.val[operation_id] IN
                   IF op.t # "dict" THEN Raise("AttributeError")
                   ELSE LET mi == MockInputs(op)
                            mo == MockOutputs(op)
                        IN  IF mi.t = "raise" THEN mi
                            ELSE IF mo.t = "raise" THEN mo
                            ELSE Return(JsonDumps(PDict(ResultKeys,
                                   [k \in {ResultKeys[i] : i \in 1..5} |->
                                      CASE k = "operation_id" -> PStr(operation_id)
                                        [] k = "description" ->
                                              DictGet(op, "description", PStr(""))
                                        [] k = "cypher" -> DictGet(op, "cypher", PStr(""))
                                        [] k = "mock_inputs" -> mi.v
                                        [] k = "mock_outputs" -> mo.v])))

\* -------------------------------------------------------------- fetch_csv
PNone == [t |-> "None"]
NetError == [t |-> "neterror"]
Http(status, text) == [t |-> "http", status |-> status, text |-> text]
CsvText(rows) == [t |-> "csvtext", rows |-> rows]
BadCsv == [t |-> "badcsv"]

\* requests.get(url) followed by response.raise_for_status()
GetOk(r) == r.t = "http" /\ r.status >= 200 /\ r.status < 300

LastCol(fieldnames, h) ==
    CHOOSE i \in 1..Len(fieldnames) :
        /\ fieldnames[i] = h
        /\ \A j \in (i + 1)..Len(fieldnames) : fieldnames[j] # h

\* the dict csv.DictReader builds for one row: zip of header and row, the
\* surplus fields under the key None, the missing ones set to None
RowDict(fieldnames, row) ==
    [t |-> "row",
     keys |-> KeyOrder([i \in 1..Len(fieldnames) |-> KV(fieldnames[i], PNone)]),
     cols |-> [h \in {fieldnames[i] : i \in 1..Len(fieldnames)} |->
                 IF LastCol(fieldnames, h) <= Len(row)
                 THEN PStr(row[LastCol(fieldnames, h)]) ELSE PNone],
     rest |-> IF Len(fieldnames) < Len(row)
              THEN SubSeq(row, Len(fieldnames) + 1, Len(row)) ELSE <<>>]

\* [row for row in csv.DictReader(...)]: the first row is the header, empty
\* rows after it are skipped
RECURSIVE DictRows(_, _, _)
DictRows(fieldnames, rows, i) ==
    IF i > Len(rows) THEN <<>>
    ELSE IF rows[i] = <<>> THEN DictRows(fieldnames, rows, i + 1)
    ELSE <<RowDict(fieldnames, rows[i])>> \o DictRows(fieldnames, rows, i + 1)

\* variant: the header row is returned as a data row too
fetch_csv_header(r) ==
    IF ~GetOk(r) THEN Return(PList(<<>>))
    ELSE IF r.text.t # "csvtext" THEN Return(PList(<<>>))
    ELSE IF r.text.rows = <<>> THEN Return(PList(<<>>))
    ELSE Return(PList(DictRows(r.text.rows[1], r.text.rows, 1)))

fetch_csv(r) ==
    IF ~GetOk(r) THEN Return(PList(<<>>))
    ELSE IF r.text.t # "csvtext" THEN Return(PList(<<>>))
    ELSE IF r.text.rows = <<>> THEN Return(PList(<<>>))
    ELSE Return(PList(DictRows(r.text.rows[1], r.text.rows, 2)))

\* --------------------------------------------------- sync_tool_contract
SyncOk(text) ==
    PStr("[SYNC] Water plant tool contract synced (" \o ToString(TextLen(text))
           \o " bytes)")
SyncError(e) == PStr("[SYNC ERROR] Failed to fetch tool contract: " \o e)

\* the exception requests.get / raise_for_status raises for a response
GetError(r) == IF r.t = "neterror" THEN "ConnectionError" ELSE "HTTPError"

\* what open(TOOL_FILE, "w") leaves in the file: nothing
Truncated == PStr("")

\* what the file holds when the write of text stops after n characters
Partial(text, n) == IF n = 0 THEN Truncated ELSE Prefix(text, n)

\* variant: the write is left out and the file stays as open() left it
Written_nowrite(text) == Truncated

\* what the file holds when the write of text completes
Written(text) == text

\* ------------------------------------------------- what the remote can send
\* {"operations": {"A": {"description": .., "cypher": .., "inputs": {"x":
\*  {"type": "int"}, "z": {}}, "outputs": [{"name": "y", "type": "string"}]}}}
Contract1 ==
    JsonText(SObj(<<KV("operations", SObj(<<
        KV("A", SObj(<<
            KV("description", SStr("zones")),
            KV("cypher", SStr("MATCH (z) RETURN z")),
            KV("inputs", SObj(<<KV("x", SObj(<<KV("type", SStr("int"))>>)),
                                KV("z", SObj(<<>>))>>)),
            KV("outputs", SArr(<<SObj(<<KV("name", SStr("y")),
                                        KV("type", SStr("string"))>>)>>))>>))>>))>>))

\* a document without an operations key
Contract2 == JsonText(SObj(<<KV("version", SStr("1"))>>))

\* operation B is written twice, A has no description, cypher or inputs, and
\* two of A's outputs share a name
Contract3 ==
    JsonText(SObj(<<KV("operations", SObj(<<
        KV("B", SObj(<<KV("description", SStr("old"))>>)),
        KV("A", SObj(<<
            KV("outputs", SArr(<<SObj(<<KV("name", SStr("y")),
                                        KV("type", SStr("string"))>>),
                                 SObj(<<KV("name", SStr("w")),
                                        KV("type", SStr("int"))>>),
                                 SObj(<<KV("name", SStr("y")),
                                        KV("type", SStr("float"))>>)>>))>>)),
        KV("B", SObj(<<KV("cypher", SStr("RETURN 1"))>>))>>))>>))

\* a 2xx body that is not JSON
HtmlPage == PStr("<html>")

Payloads == {Contract1, Contract2, Contract3, HtmlPage}

ContractResponses ==
    {NetError, Http(404, PStr("404: Not Found"))} \cup {Http(200, P) : P \in Payloads}

Csv1 == CsvText(<< <<"a", "b">>, <<"1", "2">>, <<"3", "4">> >>)
\* a blank line, a short row, a long row and a repeated header column
Csv2 == CsvText(<< <<"a", "b", "a">>, <<>>, <<"1">>, <<"1", "2", "3", "4">> >>)
CsvEmpty == CsvText(<<>>)

CsvResponses ==
    {NetError, Http(500, PStr("error"))}
        \cup {Http(200, b) : b \in {Csv1, Csv2, CsvEmpty, BadCsv}}

OpIds == {"A", "B"}

\* ------------------------------------------------------------------ state
VARIABLES
    file,          \* content of TOOL_FILE, NoFile when it does not exist
    dir,           \* TOOL_DIR: "absent", "present" or "blocked"
    phase,         \* per process: "NEW", "STARTING", "READY", "STOPPING"
    pc,            \* per process: where its control is
    caller,        \* per process: who called sync_tool_contract
    resp,          \* per process: response.text held by a running sync
    prior,         \* per process: the file when its sync was entered
    io,            \* per process: how the open and write of its sync went
    status,        \* per process: what its sync returned
    req,           \* per process: the tool call being served
    seen,          \* per process: what that call found in the file
    ret,           \* per process: what that call returned or raised
    contractGets,  \* per process: GETs of RAW_JSON_URL issued
    csvGets,       \* GETs of DATA_BASE_URL + file issued
    lastGood       \* payload of the last refresh that completed successfully

vars == <<file, dir, phase, pc, caller, resp, prior, io, status, req, seen, ret,
          contractGets, csvGets, lastGood>>

None == [t |-> "none"]
Exists == [t |-> "exists"]

Init ==
    /\ file \in {NoFile, Contract1}
    /\ dir \in (IF file = NoFile THEN {"absent", "blocked"} ELSE {"present"})
    /\ phase = [p \in Procs |-> "NEW"]
    /\ pc = [p \in Procs |-> "new"]
    /\ caller = [p \in Procs |-> "none"]
    /\ resp = [p \in Procs |-> None]
    /\ prior = [p \in Procs |-> None]
    /\ io = [p \in Procs |-> "none"]
    /\ status = [p \in Procs |-> None]
    /\ req = [p \in Procs |-> None]
    /\ seen = [p \in Procs |-> None]
    /\ ret = [p \in Procs |-> None]
    /\ contractGets = [p \in Procs |-> 0]
    /\ csvGets = 0
    /\ lastGood = file

\* ------------------------------------------------------------- lifecycle
\* a process is started only while no other one is starting up: the cache
\* file has one writer at a time
MayStart(p) ==
    /\ pc[p] = "new"
    /\ \A q \in Procs : q < p => phase[q] # "NEW"
    /\ \A q \in Procs : phase[q] = "STARTING" => pc[q] = "crashed"

\* python server.py: the __main__ block calls sync_tool_contract()
StartMain(p) ==
    /\ MayStart(p)
    /\ phase' = [phase EXCEPT ![p] = "STARTING"]
    /\ caller' = [caller EXCEPT ![p] = "main"]
    /\ pc' = [pc EXCEPT ![p] = "makedirs"]
    /\ prior' = [prior EXCEPT ![p] = file]
    /\ UNCHANGED <<io, file, dir, resp, status, req, seen, ret, contractGets,
                   csvGets, lastGood>>

\* an ASGI server imports app and runs its lifespan
StartAsgi(p) ==
    /\ MayStart(p)
    /\ phase' = [phase EXCEPT ![p] = "STARTING"]
    /\ caller' = [caller EXCEPT ![p] = "lifespan"]
    /\ pc' = [pc EXCEPT ![p] = "makedirs"]
    /\ prior' = [prior EXCEPT ![p] = file]
    /\ UNCHANGED <<io, file, dir, resp, status, req, seen, ret, contractGets,
                   csvGets, lastGood>>

\* os.makedirs(TOOL_DIR, exist_ok=True), outside the try block
Makedirs(p) ==
    /\ pc[p] = "makedirs"
    /\ IF dir = "blocked"
       THEN /\ pc' = [pc EXCEPT ![p] = "crashed"]
            /\ prior' = [prior EXCEPT ![p] = None]
            /\ caller' = [caller EXCEPT ![p] = "none"]
            /\ dir' = dir
       ELSE /\ pc' = [pc EXCEPT ![p] = "get"]
            /\ dir' = "present"
            /\ UNCHANGED <<prior, caller>>
    /\ UNCHANGED <<io, file, phase, resp, status, req, seen, ret, contractGets,
                   csvGets, lastGood>>

\* response = requests.get(RAW_JSON_URL); response.raise_for_status()
Get(p) ==
    /\ pc[p] = "get"
    /\ \E r \in ContractResponses :
          IF GetOk(r)
          THEN /\ resp' = [resp EXCEPT ![p] = r.text]
               /\ pc' = [pc EXCEPT ![p] = "open"]
               /\ status' = status
          ELSE /\ status' = [status EXCEPT ![p] = SyncError(GetError(r))]
               /\ pc' = [pc EXCEPT ![p] = "synced"]
               /\ resp' = resp
    /\ contractGets' = [contractGets EXCEPT ![p] = @ + 1]
    /\ UNCHANGED <<io, file, dir, phase, caller, prior, req, seen, ret, csvGets,
                   lastGood>>

\* open(TOOL_FILE, "w", encoding="utf-8")
Open(p) ==
    /\ pc[p] = "open"
    /\ \E ok \in BOOLEAN :
          IF ok
          THEN /\ file' = Truncated
               /\ pc' = [pc EXCEPT ![p] = "write"]
               /\ UNCHANGED <<status, io>>
          ELSE /\ status' = [status EXCEPT ![p] = SyncError("OSError")]
               /\ io' = [io EXCEPT ![p] = "openfail"]
               /\ pc' = [pc EXCEPT ![p] = "synced"]
               /\ file' = file
    /\ UNCHANGED <<dir, phase, caller, resp, prior, req, seen, ret,
                   contractGets, csvGets, lastGood>>

\* f.write(response.text) and the close at the end of the with block
Write(p) ==
    /\ pc[p] = "write"
    /\ \/ /\ file' = Written(resp[p])
          /\ status' = [status EXCEPT ![p] = SyncOk(resp[p])]
          /\ lastGood' = resp[p]
          /\ io' = [io EXCEPT ![p] = "ok"]
       \/ \E n \in 0..MaxPartial :
             /\ n < TextLen(resp[p])
             /\ file' = Partial(resp[p], n)
             /\ status' = [status EXCEPT ![p] = SyncError("OSError")]
             /\ lastGood' = lastGood
             /\ io' = [io EXCEPT ![p] = "writefail"]
    /\ pc' = [pc EXCEPT ![p] = "synced"]
    /\ UNCHANGED <<dir, phase, caller, resp, prior, req, seen, ret,
                   contractGets, csvGets>>

\* __main__: print(sync_tool_contract()); uvicorn.run(app, ...) then runs the
\* lifespan, which calls sync_tool_contract() itself
MainRunsServer(p) ==
    /\ pc[p] = "synced"
    /\ caller[p] = "main"
    /\ caller' = [caller EXCEPT ![p] = "lifespan"]
    /\ pc' = [pc EXCEPT ![p] = "makedirs"]
    /\ prior' = [prior EXCEPT ![p] = file]
    /\ resp' = [resp EXCEPT ![p] = None]
    /\ status' = [status EXCEPT ![p] = None]
    /\ io' = [io EXCEPT ![p] = "none"]
    /\ UNCHANGED <<file, dir, phase, req, seen, ret, contractGets, csvGets,
                   lastGood>>

\* lifespan: print(sync_tool_contract()); print("[READY] ..."); yield
LifespanReady(p) ==
    /\ pc[p] = "synced"
    /\ caller[p] = "lifespan"
    /\ phase' = [phase EXCEPT ![p] = "READY"]
    /\ pc' = [pc EXCEPT ![p] = "idle"]
    /\ caller' = [caller EXCEPT ![p] = "none"]
    /\ resp' = [resp EXCEPT ![p] = None]
    /\ prior' = [prior EXCEPT ![p] = None]
    /\ status' = [status EXCEPT ![p] = None]
    /\ io' = [io EXCEPT ![p] = "none"]
    /\ UNCHANGED <<file, dir, req, seen, ret, contractGets, csvGets, lastGood>>

\* lifespan after the yield: print("[SHUTDOWN] ...")
Shutdown(p) ==
    /\ phase[p] = "READY"
    /\ pc[p] = "idle"
    /\ phase' = [phase EXCEPT ![p] = "STOPPING"]
    /\ pc' = [pc EXCEPT ![p] = "stopped"]
    /\ UNCHANGED <<io, file, dir, caller, resp, prior, status, req, seen, ret,
                   contractGets, csvGets, lastGood>>

\* ------------------------------------------------------------ tool calls
Tools == {"list_operations", "extract_info", "simulate_operation"}

\* the tool applied to what the process found in the file
ToolResult(tool, exists, text, operation_id) ==
    CASE tool = "list_operations" -> list_operations(exists, text)
      [] tool = "extract_info" -> extract_info(exists, text, operation_id)
      [] tool = "simulate_operation" -> simulate_operation(exists, text, operation_id)

\* a tool is called and tests os.path.exists(TOOL_FILE): without the file it
\* returns at once, with it it goes on to open and read the file
Call(p, tool, operation_id) ==
    /\ phase[p] = "READY"
    /\ pc[p] = "idle"
    /\ req' = [req EXCEPT ![p] = [tool |-> tool, id |-> operation_id]]
    /\ IF file = NoFile
       THEN /\ seen' = [seen EXCEPT ![p] = NoFile]
            /\ ret' = [ret EXCEPT ![p] = ToolResult(tool, FALSE, file, operation_id)]
            /\ pc' = [pc EXCEPT ![p] = "returned"]
       ELSE /\ seen' = [seen EXCEPT ![p] = Exists]
            /\ ret' = ret
            /\ pc' = [pc EXCEPT ![p] = "load"]
    /\ UNCHANGED <<io, file, dir, phase, caller, resp, prior, status, contractGets,
                   csvGets, lastGood>>

CallListOperations(p) == Call(p, "list_operations", "")
CallExtractInfo(p) == \E id \in OpIds : Call(p, "extract_info", id)
CallSimulateOperation(p) == \E id \in OpIds : Call(p, "simulate_operation", id)

\* with open(TOOL_FILE, "r") as f: data = json.load(f), and the rest of the
\* tool's body
Load(p) ==
    /\ pc[p] = "load"
    /\ seen' = [seen EXCEPT ![p] = file]
    /\ ret' = [ret EXCEPT ![p] =
                  IF file = NoFile THEN Raise("FileNotFoundError")
                  ELSE ToolResult(req[p].tool, TRUE, file, req[p].id)]
    /\ pc' = [pc EXCEPT ![p] = "returned"]
    /\ UNCHANGED <<io, file, dir, phase, caller, resp, prior, status, req,
                   contractGets, csvGets, lastGood>>

\* list_plant_zones(): fetch_csv("nodes_plantzones.csv")
ListPlantZones(p) ==
    /\ phase[p] = "READY"
    /\ pc[p] = "idle"
    /\ csvGets < MaxCsvGets
    /\ \E r \in CsvResponses :
          /\ req' = [req EXCEPT ![p] = [tool |-> "list_plant_zones", id |-> "", r |-> r]]
          /\ ret' = [ret EXCEPT ![p] = fetch_csv(r)]
    /\ csvGets' = csvGets + 1
    /\ pc' = [pc EXCEPT ![p] = "returned"]
    /\ UNCHANGED <<io, file, dir, phase, caller, resp, prior, status, seen,
                   contractGets, lastGood>>

\* the result (or the exception) leaves the tool
Respond(p) ==
    /\ pc[p] = "returned"
    /\ pc' = [pc EXCEPT ![p] = "idle"]
    /\ req' = [req EXCEPT ![p] = None]
    /\ seen' = [seen EXCEPT ![p] = None]
    /\ ret' = [ret EXCEPT ![p] = None]
    /\ UNCHANGED <<io, file, dir, phase, caller, resp, prior, status, contractGets,
                   csvGets, lastGood>>

Next ==
    \E p \in Procs :
        \/ StartMain(p)
        \/ StartAsgi(p)
        \/ Makedirs(p)
        \/ Get(p)
        \/ Open(p)
        \/ Write(p)
        \/ MainRunsServer(p)
        \/ LifespanReady(p)
        \/ Shutdown(p)
        \/ CallListOperations(p)
        \/ CallExtractInfo(p)
        \/ CallSimulateOperation(p)
        \/ Load(p)
        \/ ListPlantZones(p)
        \/ Respond(p)

Spec == Init /\ [][Next]_vars

\* ================================================================ claims
\* reading a JSON document as written: the members an object lists, and the
\* value the last member of a name carries
IsObject(syn) == syn.t = "object"
Names(syn) == {syn.pairs[i].k : i \in 1..Len(syn.pairs)}
Member(syn, k) ==
    syn.pairs[CHOOSE i \in 1..Len(syn.pairs) :
                 /\ syn.pairs[i].k = k
                 /\ \A j \in 1..Len(syn.pairs) : syn.pairs[j].k = k => j <= i].v
FirstAt(syn, k) ==
    CHOOSE i \in 1..Len(syn.pairs) :
        /\ syn.pairs[i].k = k
        /\ \A j \in 1..Len(syn.pairs) : syn.pairs[j].k = k => i <= j

\* the file holds a contract document (an object; operations, if given, an
\* object)
IsContract(text) ==
    /\ text.t = "jsontext"
    /\ IsObject(text.syn)
    /\ "operations" \in Names(text.syn) => IsObject(Member(text.syn, "operations"))

\* the operations object of a contract, an empty object when there is none
Operations(text) ==
    IF "operations" \in Names(text.syn) THEN Member(text.syn, "operations")
    ELSE SObj(<<>>)

Serving(p, tool) == pc[p] = "returned" /\ req[p].tool = tool
SyncFailed(p) == resp[p] = None \/ io[p] \in {"openfail", "writefail"}
SuccessStatus(text) ==
    PStr("[SYNC] Water plant tool contract synced (" \o ToString(TextLen(text))
           \o " bytes)")

\* ---- C1
\* C1 as stated: whenever sync_tool_contract has run and its GET succeeded
\* with body P, the cache file holds exactly P and the status returned is the
\* success status reporting len(P).
C1_Original ==
    \A p \in Procs :
        (pc[p] = "synced" /\ resp[p] # None)
            => (file = resp[p] /\ status[p] = SuccessStatus(resp[p]))

\* C1 amended: whenever sync_tool_contract has run, its GET succeeded with
\* body P and the cache file was opened and written without an I/O error, the
\* cache file holds exactly P, whatever it held before, and the status
\* returned is the success status reporting len(P).
C1_RefreshStoresPayload ==
    \A p \in Procs :
        (pc[p] = "synced" /\ resp[p] # None /\ io[p] = "ok")
            => (file = resp[p] /\ status[p] = SuccessStatus(resp[p]))

C1_Witness ==
    \E p \in Procs :
        /\ pc[p] = "synced" /\ resp[p] = Contract3 /\ io[p] = "ok"
        /\ prior[p] = Contract1
        /\ file = Contract3

\* ---- C2
\* C2: whenever sync_tool_contract has failed (no response, a non-2xx status,
\* or an I/O error opening or writing the file) with a cache file C in place
\* when it began, the cache file still holds exactly C and a failure status
\* string was returned.
C2_Original ==
    \A p \in Procs :
        (pc[p] = "synced" /\ SyncFailed(p) /\ prior[p] # NoFile)
            => (file = prior[p] /\ status[p].t = "str")

\* ---- C3
\* C3: a process that has reached READY or STOPPING has issued exactly one
\* contract fetch, whichever way it was started, and a contract fetch is only
\* ever in progress during STARTING.
C3_Original ==
    \A p \in Procs :
        /\ phase[p] \in {"READY", "STOPPING"} => contractGets[p] = 1
        /\ pc[p] \in {"makedirs", "get", "open", "write", "synced"}
              => phase[p] = "STARTING"

\* ---- C4
\* C4: every call of list_operations, extract_info and simulate_operation
\* returns a value; none lets an exception escape.
C4_Original ==
    \A p \in Procs :
        (pc[p] = "returned" /\ req[p].tool \in Tools) => ret[p].t = "return"

\* ---- C5
MissingSentinel(tool) ==
    CASE tool = "list_operations" -> PList(<<PStr("Tool contract not found.")>>)
      [] tool = "extract_info" -> PStr("Tool contract missing.")
      [] tool = "simulate_operation" -> PStr("Tool contract not found.")

\* C5: a call of list_operations, extract_info or simulate_operation made
\* while no cache file exists returns that tool's sentinel (a one-element
\* list holding the message for list_operations, a string for the other two),
\* raises nothing, and leaves the file absent.
C5_MissingCacheSentinel ==
    [][\A p \in Procs :
          (file = NoFile /\ pc[p] = "idle" /\ pc'[p] \in {"load", "returned"}
              /\ req'[p].tool \in Tools)
            => /\ pc'[p] = "returned"
               /\ ret'[p] = Return(MissingSentinel(req'[p].tool))
               /\ file' = NoFile]_vars

C5_Witness ==
    \E p \in Procs :
        /\ Serving(p, "extract_info")
        /\ seen[p] = NoFile
        /\ file = NoFile
        /\ ret[p] = Return(PStr("Tool contract missing."))

\* ---- C6
DeclaredType(param) ==
    IF "type" \in Names(param) THEN Member(param, "type").s ELSE "unknown"
OrEmpty(op, k) == IF k \in Names(op) THEN Member(op, k) ELSE SStr("")
Inputs(op) == IF "inputs" \in Names(op) THEN Member(op, "inputs") ELSE SObj(<<>>)
Outputs(op) == IF "outputs" \in Names(op) THEN Member(op, "outputs").items ELSE <<>>

\* the record simulate_operation is to return for operation id of the
\* contract text: r is the JSON document returned
IsSimulation(r, text, id) ==
    LET op == Member(Operations(text), id)
        ins == Inputs(op)
        outs == Outputs(op)
    IN  /\ IsObject(r)
        /\ Names(r) = {"operation_id", "description", "cypher", "mock_inputs",
                       "mock_outputs"}
        /\ Len(r.pairs) = 5
        /\ Member(r, "operation_id") = SStr(id)
        /\ Member(r, "description") = OrEmpty(op, "description")
        /\ Member(r, "cypher") = OrEmpty(op, "cypher")
        /\ IsObject(Member(r, "mock_inputs"))
        /\ Names(Member(r, "mock_inputs")) = Names(ins)
        /\ \A k \in Names(ins) :
              Member(Member(r, "mock_inputs"), k)
                  = SStr("<" \o DeclaredType(Member(ins, k)) \o ">")
        /\ IsObject(Member(r, "mock_outputs"))
        /\ Names(Member(r, "mock_outputs"))
              = {Member(outs[i], "name").s : i \in 1..Len(outs)}
        /\ \A i \in 1..Len(outs) :
              (\A j \in (i + 1)..Len(outs) :
                   Member(outs[j], "name") # Member(outs[i], "name"))
                => Member(Member(r, "mock_outputs"), Member(outs[i], "name").s)
                       = SStr("<" \o Member(outs[i], "type").s \o ">")

\* C6: simulate_operation(id), reading a cached contract that has operation
\* id, returns the JSON record with operation_id = id, description and cypher
\* copied through ("" when absent), mock_inputs mapping every declared input
\* name to "<declared type>" ("<unknown>" without a type), mock_outputs
\* mapping every declared output name to "<declared type>" (of its last
\* declaration when a name is declared twice); the cache file is unchanged.
C6_SimulateFromSchema ==
    [][\A p \in Procs :
          (pc[p] = "load" /\ pc'[p] = "returned"
              /\ req[p].tool = "simulate_operation"
              /\ IsContract(file) /\ req[p].id \in Names(Operations(file)))
            => /\ file' = file
               /\ ret'[p].t = "return"
               /\ ret'[p].v.t = "jsontext"
               /\ IsSimulation(ret'[p].v.syn, file, req[p].id)]_vars

C6_Witness ==
    \E p \in Procs :
        /\ Serving(p, "simulate_operation")
        /\ req[p].id = "A"
        /\ seen[p] = Contract3
        /\ ret[p].t = "return"
        /\ Member(Member(ret[p].v.syn, "mock_outputs"), "y") = SStr("<float>")

\* ---- C7
\* C7 as stated: for an id that is not an operation of the cached contract,
\* extract_info(id) returns the string "No data for {id}" and
\* simulate_operation(id) the string "No such operation: {id}"; for an id
\* that is one, extract_info(id) returns the serialized spec stored under it.
C7_Original ==
    \A p \in Procs :
        (pc[p] = "returned" /\ req[p].tool \in {"extract_info", "simulate_operation"}
            /\ seen[p] \notin {NoFile, Exists} /\ IsContract(seen[p]))
          => IF req[p].id \notin Names(Operations(seen[p]))
             THEN ret[p] = Return(PStr(
                     (IF req[p].tool = "extract_info" THEN "No data for "
                      ELSE "No such operation: ") \o req[p].id))
             ELSE req[p].tool = "extract_info"
                    => ret[p] = Return(JsonText(Member(Operations(seen[p]), req[p].id)))

\* C7 amended: for an id that is not an operation of the cached contract,
\* extract_info(id) returns the JSON serialization of the string
\* "No data for {id}" (the sentinel enclosed in double quotes) and
\* simulate_operation(id) the string "No such operation: {id}" verbatim; for
\* an id that is one, extract_info(id) returns the serialized spec stored
\* under it.
C7_NotFoundSentinels ==
    \A p \in Procs :
        (pc[p] = "returned" /\ req[p].tool \in {"extract_info", "simulate_operation"}
            /\ seen[p] \notin {NoFile, Exists} /\ IsContract(seen[p]))
          => IF req[p].id \notin Names(Operations(seen[p]))
             THEN IF req[p].tool = "extract_info"
                  THEN ret[p] = Return(JsonText(SStr("No data for " \o req[p].id)))
                  ELSE ret[p] = Return(PStr("No such operation: " \o req[p].id))
             ELSE req[p].tool = "extract_info"
                    => ret[p] = Return(JsonText(Member(Operations(seen[p]), req[p].id)))

C7_Witness ==
    \E p \in Procs :
        /\ Serving(p, "extract_info")
        /\ req[p].id = "B"
        /\ seen[p] = Contract1
        /\ ret[p] = Return(JsonText(SStr("No data for B")))

\* ---- C8
\* C8: list_operations, reading a cached contract, returns the names of its
\* operations, each once and in the order the document first lists them; a
\* contract without an operations key gives the empty list.
C8_ListOperationsKeys ==
    \A p \in Procs :
        (Serving(p, "list_operations") /\ seen[p] \notin {NoFile, Exists}
            /\ IsContract(seen[p]))
          => LET ops == Operations(seen[p]) IN
             /\ ret[p].t = "return"
             /\ ret[p].v.t = "list"
             /\ LET ids == ret[p].v.items IN
                /\ {ids[i] : i \in 1..Len(ids)} = {PStr(k) : k \in Names(ops)}
                /\ Len(ids) = Cardinality(Names(ops))
                /\ \A i, j \in 1..Len(ids) :
                      i < j => FirstAt(ops, ids[i].s) < FirstAt(ops, ids[j].s)
             /\ "operations" \notin Names(seen[p].syn) => ret[p].v = PList(<<>>)

C8_Witness ==
    \E p \in Procs :
        /\ Serving(p, "list_operations")
        /\ seen[p] = Contract3
        /\ ret[p] = Return(PList(<<PStr("B"), PStr("A")>>))

\* ---- C9
NonBlank(row) == row # <<>>
DataRows(rows) == IF rows = <<>> THEN <<>> ELSE SelectSeq(Tail(rows), NonBlank)

\* v is what fetch_csv is to return for the response r
IsCsvResult(v, r) ==
    /\ v.t = "list"
    /\ IF r.t = "http" /\ r.status \in 200..299 /\ r.text.t = "csvtext"
       THEN LET header == IF r.text.rows = <<>> THEN <<>> ELSE r.text.rows[1]
                data == DataRows(r.text.rows)
            IN  /\ Len(v.items) = Len(data)
                /\ \A i \in 1..Len(data) :
                      /\ DOMAIN v.items[i].cols
                            = {header[j] : j \in 1..Len(header)}
                      /\ \A j \in 1..Len(header) :
                            (/\ j <= Len(data[i])
                             /\ \A k \in (j + 1)..Len(header) : header[k] # header[j])
                              => v.items[i].cols[header[j]] = PStr(data[i][j])
       ELSE v.items = <<>>

Refreshing(q) ==
    /\ pc[q] \in {"makedirs", "get", "open", "write"}
    /\ prior[q] = lastGood

\* C10: whenever a lookup reads the cache file while a refresh is running in
\* another process, what it reads is the payload of the last refresh that
\* completed successfully (the one before the refresh in progress): never a
\* truncated or partly written file, and never a missing one after the
\* existence check.
C10_Original ==
    [][\A p \in Procs :
          (pc[p] = "load" /\ pc'[p] = "returned"
              /\ \E q \in Procs \ {p} : Refreshing(q))
            => seen'[p] = lastGood]_vars

====
